---- MODULE Spec2Model ----
(***************************************************************************)
(* A model of the three command-line tools of agentbeats-submission-action *)
(*   create_git_info.py    the Metadata Collector                          *)
(*   validate_python.py    the Source Validator                            *)
(*   upload_submission.py  the Submission Uploader                         *)
(* Each tool is a short sequential process.  A behaviour of Spec is one    *)
(* run of one tool: Init chooses the tool and its inputs (command line,    *)
(* file system, environment, what git or the server answers), the tool's   *)
(* variables then follow its code statement by statement, and the other    *)
(* two tools stay "idle".                                                  *)
(***************************************************************************)
EXTENDS Integers, Sequences, FiniteSets

VARIABLES
    \* ---- create_git_info.py
    gitPc,       \* "idle", "query", "write", "done", "crashed"
    gitEnv,      \* the git executable: "ok", "missing", "notexec"
    info,        \* main's dict `info`, in insertion order: <<[key, val]>>
    gitRan,      \* the queries run so far, in order: <<[args, outcome]>>
    gitFile,     \* GIT_INFO.json: <<"absent">> or <<"json", info>>
    gitExit,     \* <<>> while the process runs, then <<its exit code>>
    \* ---- validate_python.py
    valPc,       \* "idle", "start", "structure", "loop", "report", "done"
    argv,        \* <<>> or <<path>>: sys.argv[1:]
    tree,        \* the file system under the path: [exists, files, requirements]
    python_files,\* main's list python_files
    valIdx,      \* number of loop iterations finished
    checked,     \* the calls of validate_python_syntax so far: <<file id>>
    errors,      \* main's list errors: <<[path, msg]>>
    report,      \* what the final report printed: <<[path, msg]>>
    valExit      \* <<>> while the process runs, then <<its exit code>>

gitVars == <<gitPc, gitEnv, info, gitRan, gitFile, gitExit>>
valVars == <<valPc, argv, tree, python_files, valIdx, checked, errors, report, valExit>>

\* An exit status: none while the process runs.
Running == <<>>
Exited(code) == <<code>>

(***************************************************************************)
(* Strings of the Metadata Collector are sequences of characters, so that  *)
(* str.strip() and str.split('\n')[0] are computed, not assumed.           *)
(***************************************************************************)
NL == "\n"
Whitespace == {" ", NL}

RECURSIVE lstrip(_)
lstrip(s) ==
    IF s # <<>> /\ Head(s) \in Whitespace THEN lstrip(Tail(s)) ELSE s

RECURSIVE rstrip(_)
rstrip(s) ==
    IF s # <<>> /\ s[Len(s)] \in Whitespace
    THEN rstrip(SubSeq(s, 1, Len(s) - 1))
    ELSE s

\* str.strip()
strip(s) == rstrip(lstrip(s))

\* s.split('\n')[0]: the part of s before its first newline
RECURSIVE first_line(_)
first_line(s) ==
    IF s = <<>> \/ Head(s) = NL THEN <<>> ELSE <<Head(s)>> \o first_line(Tail(s))

(***************************************************************************)
(* create_git_info.py                                                      *)
(***************************************************************************)
\* The nine entries of the dict display in main, in evaluation order.
Queries == <<
    [key |-> "commit",           args |-> "rev-parse HEAD",              first |-> FALSE],
    [key |-> "commit_short",     args |-> "rev-parse --short HEAD",      first |-> FALSE],
    [key |-> "message",          args |-> "log -1 --pretty=%B",          first |-> TRUE],
    [key |-> "branch",           args |-> "rev-parse --abbrev-ref HEAD", first |-> FALSE],
    [key |-> "tag",              args |-> "describe --tags --exact-match", first |-> FALSE],
    [key |-> "remote_url",       args |-> "remote get-url origin",       first |-> FALSE],
    [key |-> "author",           args |-> "log -1 --pretty=%an",         first |-> FALSE],
    [key |-> "author_email",     args |-> "log -1 --pretty=%ae",         first |-> FALSE],
    [key |-> "commit_timestamp", args |-> "log -1 --pretty=%aI",         first |-> FALSE] >>

\* What git can print on success: one line, and a subject with a body.
GitOutputs == { <<"a", NL>>, <<" ", "a", " ", "b", NL, NL, "c", NL>> }

\* What subprocess.check_output can do, given the executable.
\*   ok      git ran and exited 0 with output `out`
\*   CalledProcessError   git exited non-zero
\*   FileNotFoundError    there is no git
\*   PermissionError      git is there and cannot be executed
Outcomes(env) ==
    IF env = "missing" THEN {[kind |-> "FileNotFoundError", out |-> <<>>]}
    ELSE IF env = "notexec" THEN {[kind |-> "PermissionError", out |-> <<>>]}
    ELSE {[kind |-> "ok", out |-> o] : o \in GitOutputs}
         \cup {[kind |-> "CalledProcessError", out |-> <<>>]}

\* git_cmd with a handler that lets a non-zero exit of git escape
git_cmd_uncaught(outcome) ==
    IF outcome.kind = "ok"
    THEN [raised |-> FALSE, val |-> strip(outcome.out)]
    ELSE IF outcome.kind = "FileNotFoundError"
    THEN [raised |-> FALSE, val |-> <<>>]
    ELSE [raised |-> TRUE, val |-> <<>>]

\* git_cmd: the stripped output, '' on the two exceptions it catches; any
\* other exception leaves it.
git_cmd(outcome) ==
    IF outcome.kind = "ok"
    THEN [raised |-> FALSE, val |-> strip(outcome.out)]
    ELSE IF outcome.kind \in {"CalledProcessError", "FileNotFoundError"}
    THEN [raised |-> FALSE, val |-> <<>>]
    ELSE [raised |-> TRUE, val |-> <<>>]

InitGitIdle ==
    /\ gitPc = "idle"
    /\ gitEnv = "ok"
    /\ info = <<>>
    /\ gitRan = <<>>
    /\ gitFile = <<"absent">>
    /\ gitExit = Running

InitGit ==
    /\ gitPc = "query"
    /\ gitEnv \in {"ok", "missing", "notexec"}
    /\ info = <<>>
    /\ gitRan = <<>>
    /\ gitFile = <<"absent">>
    /\ gitExit = Running

\* One entry of the dict display: the next query is run and its field set.
GitQuery ==
    /\ gitPc = "query"
    /\ Len(info) < Len(Queries)
    /\ LET q == Queries[Len(info) + 1] IN
       \E outcome \in Outcomes(gitEnv) :
          LET r == git_cmd(outcome) IN
          /\ gitRan' = Append(gitRan, [args |-> q.args, outcome |-> outcome.kind])
          /\ IF r.raised
             THEN /\ gitPc' = "crashed"
                  /\ gitExit' = Exited(1)
                  /\ info' = info
             ELSE /\ info' = Append(info,
                        [key |-> q.key,
                         val |-> IF q.first THEN first_line(r.val) ELSE r.val])
                  /\ gitPc' = IF Len(info) + 1 = Len(Queries) THEN "write" ELSE "query"
                  /\ gitExit' = gitExit
    /\ UNCHANGED <<gitEnv, gitFile>>

\* json.dump(info, f) into GIT_INFO.json, the echo, and the return of main.
GitWrite ==
    /\ gitPc = "write"
    /\ gitFile' = <<"json", info>>
    /\ gitPc' = "done"
    /\ gitExit' = Exited(0)
    /\ UNCHANGED <<gitEnv, info, gitRan>>

(***************************************************************************)
(* validate_python.py                                                      *)
(***************************************************************************)
MaxFiles == 3
MaxLine == 2

\* What a discovered *.py path can be.
\*   good      compiles and parses
\*   compile   a syntax error that py_compile.compile reports (it compiles
\*             first, so every error of the compiler is met there)
\*   parse     compiles, and ast.parse of the text read as UTF-8 raises
\*             SyntaxError (a file that starts with a byte order mark)
\*   decode    compiles, and reading it as UTF-8 raises UnicodeDecodeError
\*   isdir     a directory named *.py: py_compile raises IsADirectoryError
FileKinds ==
    {[kind |-> "good", lineno |-> 0], [kind |-> "decode", lineno |-> 0],
     [kind |-> "isdir", lineno |-> 0]}
    \cup {[kind |-> k, lineno |-> n] : k \in {"compile", "parse"}, n \in 1..MaxLine}

HasSyntaxError(file) == file.kind \in {"compile", "parse"}

\* py_compile.compile(path, doraise=True): the exception it raises, if any.
\* A SyntaxError of the compiler is wrapped in py_compile.PyCompileError,
\* which is an Exception and not a SyntaxError.
py_compile(file) ==
    IF file.kind = "compile" THEN "PyCompileError"
    ELSE IF file.kind = "isdir" THEN "IsADirectoryError"
    ELSE "none"

\* open(..., encoding='utf-8'), f.read() and ast.parse(code)
ast_parse(file) ==
    IF file.kind = "parse" THEN "SyntaxError"
    ELSE IF file.kind = "decode" THEN "UnicodeDecodeError"
    ELSE "none"

\* The messages of the two except clauses and of success.
SyntaxMsg(file) == [form |-> "Syntax error at line", lineno |-> file.lineno, exc |-> "SyntaxError"]
RawMsg(exc) == [form |-> "Error:", lineno |-> 0, exc |-> exc]
NoMsg == [form |-> "", lineno |-> 0, exc |-> "none"]

\* validate_python_syntax that reports a failing file as valid
validate_python_syntax_lenient(file) ==
    LET c == py_compile(file) IN
    IF c = "none" THEN [valid |-> TRUE, msg |-> NoMsg]
    ELSE [valid |-> FALSE, msg |-> RawMsg(c)]

\* validate_python_syntax: (is_valid, error_message)
validate_python_syntax(file) ==
    LET c == py_compile(file)
        exc == IF c # "none" THEN c ELSE ast_parse(file)
    IN  IF exc = "none" THEN [valid |-> TRUE, msg |-> NoMsg]
        ELSE IF exc = "SyntaxError" THEN [valid |-> FALSE, msg |-> SyntaxMsg(file)]
        ELSE [valid |-> FALSE, msg |-> RawMsg(exc)]

\* submission_path.rglob('*.py'): the files are told apart by their place.
rglob(t) == [i \in 1..Len(t.files) |-> [id |-> i, file |-> t.files[i]]]

\* check_required_structure without the check for a Python file
check_required_structure_any(t) ==
    [valid |-> TRUE,
     warnings |-> IF t.requirements THEN <<>> ELSE <<"No requirements.txt found">>]

\* check_required_structure: (is_valid, warnings)
check_required_structure(t) ==
    IF rglob(t) = <<>>
    THEN [valid |-> FALSE, warnings |-> <<"No Python files found in submission">>]
    ELSE [valid |-> TRUE,
          warnings |-> IF t.requirements THEN <<>>
                       ELSE <<"No requirements.txt found">>]

FileSeqs == UNION {[1..n -> FileKinds] : n \in 0..MaxFiles}

Trees ==
    {[exists |-> TRUE, files |-> f, requirements |-> r] :
        f \in FileSeqs, r \in BOOLEAN}
    \cup {[exists |-> FALSE, files |-> <<>>, requirements |-> FALSE]}

InitValIdle ==
    /\ valPc = "idle"
    /\ argv = <<>>
    /\ tree = [exists |-> FALSE, files |-> <<>>, requirements |-> FALSE]
    /\ python_files = <<>>
    /\ valIdx = 0
    /\ checked = <<>>
    /\ errors = <<>>
    /\ report = <<>>
    /\ valExit = Running

InitVal ==
    /\ valPc = "start"
    /\ argv \in {<<>>, <<"submission">>}
    /\ tree \in Trees
    /\ python_files = <<>>
    /\ valIdx = 0
    /\ checked = <<>>
    /\ errors = <<>>
    /\ report = <<>>
    /\ valExit = Running

\* len(sys.argv) < 2, and submission_path.exists()
ValStart ==
    /\ valPc = "start"
    /\ IF argv = <<>> \/ ~tree.exists
       THEN valPc' = "done" /\ valExit' = Exited(1)
       ELSE valPc' = "structure" /\ valExit' = valExit
    /\ UNCHANGED <<argv, tree, python_files, valIdx, checked, errors, report>>

\* check_required_structure, the warnings, and the second rglob
ValStructure ==
    /\ valPc = "structure"
    /\ IF ~check_required_structure(tree).valid
       THEN /\ valPc' = "done"
            /\ valExit' = Exited(1)
            /\ python_files' = python_files
       ELSE /\ valPc' = "loop"
            /\ valExit' = valExit
            /\ python_files' = rglob(tree)
    /\ UNCHANGED <<argv, tree, valIdx, checked, errors, report>>

\* One iteration of `for py_file in python_files`
ValCheck ==
    /\ valPc = "loop"
    /\ valIdx < Len(python_files)
    /\ LET py_file == python_files[valIdx + 1]
           r == validate_python_syntax(py_file.file)
       IN  /\ checked' = Append(checked, py_file.id)
           /\ errors' = IF r.valid THEN errors
                        ELSE Append(errors, [path |-> py_file.id, msg |-> r.msg])
    /\ valIdx' = valIdx + 1
    /\ UNCHANGED <<valPc, argv, tree, python_files, report, valExit>>

\* The loop is over.
ValLoopEnd ==
    /\ valPc = "loop"
    /\ valIdx = Len(python_files)
    /\ valPc' = "report"
    /\ UNCHANGED <<argv, tree, python_files, valIdx, checked, errors, report, valExit>>

\* The final report and the exit.
ValReport ==
    /\ valPc = "report"
    /\ report' = errors
    /\ valExit' = IF errors # <<>> THEN Exited(1) ELSE Exited(0)
    /\ valPc' = "done"
    /\ UNCHANGED <<argv, tree, python_files, valIdx, checked, errors>>

(***************************************************************************)
(* upload_submission.py: texts and JSON                                    *)
(*                                                                         *)
(* A text (a Python str, a response body, a line of a file) is a sequence  *)
(* of tokens.  A token is a punctuation mark of JSON, a number, a word of  *)
(* plain text, or a quoted string that holds a text of its own, so that a  *)
(* JSON document inside a JSON string is a text inside a token.  json.dumps*)
(* writes a value as tokens and json.loads parses tokens by recursive      *)
(* descent: a text that is no JSON document is rejected.                   *)
(***************************************************************************)
Tok(k) == [k |-> k, a |-> "", sub |-> <<>>]
Word(w) == [k |-> "word", a |-> w, sub |-> <<>>]
NumTok(n) == [k |-> "num", a |-> n, sub |-> <<>>]
StrTok(text) == [k |-> "str", a |-> "", sub |-> text]
\* repr() of a dict or a list, and str.upper() of a text
ReprTok(text) == [k |-> "repr", a |-> "", sub |-> text]
UpperTok(text) == [k |-> "upper", a |-> "", sub |-> text]
CapTok(text) == [k |-> "capitalize", a |-> "", sub |-> text]

\* Python values: str, int, None, dict (its items in insertion order) and
\* list (its elements under the key "").  Unset is a name not yet bound.
PyStr(text) == [t |-> "str", a |-> "", txt |-> text, f |-> <<>>]
PyInt(n) == [t |-> "int", a |-> n, txt |-> <<>>, f |-> <<>>]
PyNone == [t |-> "None", a |-> "", txt |-> <<>>, f |-> <<>>]
PyDict(items) == [t |-> "dict", a |-> "", txt |-> <<>>, f |-> items]
PyList(elems) ==
    [t |-> "list", a |-> "", txt |-> <<>>,
     f |-> [i \in 1..Len(elems) |-> [key |-> "", val |-> elems[i]]]]
Unset == [t |-> "unset", a |-> "", txt |-> <<>>, f |-> <<>>]
Item(k, v) == [key |-> k, val |-> v]
S(w) == PyStr(<<Word(w)>>)

\* key in d
HasKey(d, k) == \E i \in 1..Len(d.f) : d.f[i].key = k

\* d[k] for a key of d
Lookup(d, k) == d.f[CHOOSE i \in 1..Len(d.f) : d.f[i].key = k].val

\* d.get(k, default)
Get(d, k, default) == IF HasKey(d, k) THEN Lookup(d, k) ELSE default

\* d[k] = v on the item list of a dict: a key keeps its place
SetItem(items, k, v) ==
    IF \E i \in 1..Len(items) : items[i].key = k
    THEN [i \in 1..Len(items) |->
             IF items[i].key = k THEN Item(k, v) ELSE items[i]]
    ELSE Append(items, Item(k, v))

RECURSIVE dumps(_)
RECURSIVE dumps_items(_, _)
\* The items of a dict (keyed) or the elements of a list, comma-separated.
dumps_items(items, keyed) ==
    IF items = <<>> THEN <<>>
    ELSE (IF keyed THEN <<StrTok(<<Word(Head(items).key)>>), Tok(":")>> ELSE <<>>)
         \o dumps(Head(items).val)
         \o (IF Tail(items) = <<>> THEN <<>> ELSE <<Tok(",")>>)
         \o dumps_items(Tail(items), keyed)

\* json.dumps
dumps(v) ==
    IF v.t = "str" THEN <<StrTok(v.txt)>>
    ELSE IF v.t = "int" THEN <<NumTok(v.a)>>
    ELSE IF v.t = "None" THEN <<Tok("null")>>
    ELSE IF v.t = "dict" THEN <<Tok("{")>> \o dumps_items(v.f, TRUE) \o <<Tok("}")>>
    ELSE <<Tok("[")>> \o dumps_items(v.f, FALSE) \o <<Tok("]")>>

\* A parse: whether it succeeded, the value, and the tokens left.
Parsed(v, rest) == [ok |-> TRUE, val |-> v, rest |-> rest]
NoParse == [ok |-> FALSE, val |-> Unset, rest |-> <<>>]

\* The key a quoted string spells.
KeyOf(tok) ==
    IF Len(tok.sub) = 1 /\ tok.sub[1].k = "word" THEN tok.sub[1].a ELSE "?"

RECURSIVE parse_value(_)
RECURSIVE parse_members(_, _)
RECURSIVE parse_elements(_, _)
\* After "{" or ",": key ":" value, then "," or "}".
parse_members(ts, items) ==
    IF Len(ts) < 2 \/ ts[1].k # "str" \/ ts[2].k # ":" THEN NoParse
    ELSE LET v == parse_value(SubSeq(ts, 3, Len(ts))) IN
         IF ~v.ok \/ v.rest = <<>> THEN NoParse
         ELSE LET got == SetItem(items, KeyOf(ts[1]), v.val) IN
              IF Head(v.rest).k = "}" THEN Parsed(PyDict(got), Tail(v.rest))
              ELSE IF Head(v.rest).k = "," THEN parse_members(Tail(v.rest), got)
              ELSE NoParse

\* After "[" or ",": value, then "," or "]".
parse_elements(ts, elems) ==
    LET v == parse_value(ts) IN
    IF ~v.ok \/ v.rest = <<>> THEN NoParse
    ELSE LET got == Append(elems, v.val) IN
         IF Head(v.rest).k = "]" THEN Parsed(PyList(got), Tail(v.rest))
         ELSE IF Head(v.rest).k = "," THEN parse_elements(Tail(v.rest), got)
         ELSE NoParse

parse_value(ts) ==
    IF ts = <<>> THEN NoParse
    ELSE LET h == Head(ts)
             r == Tail(ts)
         IN  IF h.k = "str" THEN Parsed(PyStr(h.sub), r)
             ELSE IF h.k = "num" THEN Parsed(PyInt(h.a), r)
             ELSE IF h.k = "null" THEN Parsed(PyNone, r)
             ELSE IF h.k = "{"
             THEN IF r # <<>> /\ Head(r).k = "}" THEN Parsed(PyDict(<<>>), Tail(r))
                  ELSE parse_members(r, <<>>)
             ELSE IF h.k = "["
             THEN IF r # <<>> /\ Head(r).k = "]" THEN Parsed(PyList(<<>>), Tail(r))
                  ELSE parse_elements(r, <<>>)
             ELSE NoParse

\* json.loads, and response.json(): ok is FALSE where they raise.
loads(text) ==
    LET p == parse_value(text) IN
    IF p.ok /\ p.rest = <<>> THEN [ok |-> TRUE, val |-> p.val]
    ELSE [ok |-> FALSE, val |-> Unset]

\* str(v), and v inside an f-string
Format(v) ==
    IF v.t = "str" THEN v.txt
    ELSE IF v.t = "int" THEN <<NumTok(v.a)>>
    ELSE IF v.t = "None" THEN <<Word("None")>>
    ELSE <<ReprTok(dumps(v))>>

(***************************************************************************)
(* upload_submission.py: exceptions, lines and blocks of writes            *)
(***************************************************************************)
\* An exception: its class, the title and details of a SubmissionError, and
\* str(e).
NoExc == [cls |-> "none", title |-> Unset, details |-> <<>>, msg |-> <<>>]
Exc(cls, msg) == [cls |-> cls, title |-> Unset, details |-> <<>>, msg |-> msg]

\* SubmissionError(title, details): super().__init__(title) makes str(e)
\* the str of the title.
SubmissionError(title, details) ==
    [cls |-> "SubmissionError", title |-> title, details |-> details,
     msg |-> Format(title)]

\* obj.name on an object that has no such attribute
AttributeError(v, name) == Exc("AttributeError", <<Word(v.t), Word(name)>>)

\* A printed or written line: its fixed part and the text formatted into it.
Line(label, text) == [s |-> label, v |-> text]

\* A statement of a block that prints or writes one line: the line, or the
\* exception that evaluating it raises.
Wrote(line) == [ok |-> TRUE, line |-> line, exc |-> NoExc]
Raised(e) == [ok |-> FALSE, line |-> Line("", <<>>), exc |-> e]
Fixed(label) == Wrote(Line(label, <<>>))

\* f"{label}{body.get(key, default)}"
GetLine(body, label, key, default) ==
    IF body.t # "dict" THEN Raised(AttributeError(body, "get"))
    ELSE Wrote(Line(label, Format(Get(body, key, S(default)))))

\* f"{label}{body.get(key, default).upper()}"
UpperLine(body, label, key, default) ==
    IF body.t # "dict" THEN Raised(AttributeError(body, "get"))
    ELSE LET v == Get(body, key, S(default)) IN
         IF v.t # "str" THEN Raised(AttributeError(v, "upper"))
         ELSE Wrote(Line(label, <<UpperTok(v.txt)>>))

\* f"{label}{body.get(k1, d1).capitalize()}{sep}{body.get(k2, d2)}"
CapitalizeLine(body, label, k1, d1, sep, k2, d2) ==
    IF body.t # "dict" THEN Raised(AttributeError(body, "get"))
    ELSE LET v == Get(body, k1, S(d1)) IN
         IF v.t # "str" THEN Raised(AttributeError(v, "capitalize"))
         ELSE Wrote(Line(label,
                  <<CapTok(v.txt), Word(sep)>> \o Format(Get(body, k2, S(d2)))))

\* f"{label}{body.get(k1, d1)}{sep}{body.get(k2, d2)}"
TwoLine(body, label, k1, d1, sep, k2, d2) ==
    IF body.t # "dict" THEN Raised(AttributeError(body, "get"))
    ELSE Wrote(Line(label,
             Format(Get(body, k1, S(d1))) \o <<Word(sep)>>
             \o Format(Get(body, k2, S(d2)))))

\* The statements of a block run in order and the first exception ends the
\* block: the lines that were written, and the exception if there is one.
RECURSIVE RunBlock(_)
RunBlock(stmts) ==
    IF stmts = <<>> THEN [lines |-> <<>>, exc |-> NoExc]
    ELSE IF ~Head(stmts).ok THEN [lines |-> <<>>, exc |-> Head(stmts).exc]
    ELSE LET rest == RunBlock(Tail(stmts)) IN
         [lines |-> <<Head(stmts).line>> \o rest.lines, exc |-> rest.exc]

(***************************************************************************)
(* upload_submission.py: upload_submission                                 *)
(*                                                                         *)
(* inp is one invocation: what argparse makes of the command line, the     *)
(* flags, the --file path, the two environment variables and their files,  *)
(* the --file-list file, and what the HTTP exchange does:                  *)
(*   ok          a 2xx response with body `text`                           *)
(*   status      a 4xx/5xx response with body `text`: raise_for_status     *)
(*               raises HTTPError, which carries the response              *)
(*   connection  requests.post raises with no response (refused, timeout)  *)
(***************************************************************************)
HTTPErrorText == <<Word("400 Client Error: Bad Request for url")>>
ConnectionErrorText == <<Word("Connection refused")>>
JSONDecodeErrorText == <<Word("Expecting value: line 1 column 1 (char 0)")>>
EndpointHint == <<Word("\n\nPlease check the submission_endpoint is correct.")>>
EndpointNotFound == S("API endpoint not found.")

\* The except clause that takes the response text for the details
request_failed_response_text(etext, has_response, text) ==
    LET failed == <<Line("Upload failed: ", etext)>> IN
    IF has_response
    THEN LET error_detail == loads(text) IN
         IF error_detail.ok /\ error_detail.val.t = "dict"
         THEN [exc |-> SubmissionError(
                          Get(error_detail.val, "error", PyStr(etext)), etext),
               printed |-> failed
                           \o <<Line("   Server response: ", dumps(error_detail.val))>>]
         ELSE [exc |-> SubmissionError(EndpointNotFound, text),
               printed |-> failed \o <<Line("   Server response: ", text)>>]
    ELSE [exc |-> SubmissionError(EndpointNotFound, etext \o EndpointHint),
          printed |-> failed]

\* The except clause that takes the "error" field of any body that parses
request_failed_any_json(etext, has_response, text) ==
    LET failed == <<Line("Upload failed: ", etext)>> IN
    IF has_response
    THEN LET error_detail == loads(text) IN
         IF error_detail.ok
         THEN [exc |-> SubmissionError(
                          Get(error_detail.val, "error", PyStr(etext)), etext),
               printed |-> failed
                           \o <<Line("   Server response: ", dumps(error_detail.val))>>]
         ELSE [exc |-> SubmissionError(EndpointNotFound, etext \o EndpointHint),
               printed |-> failed \o <<Line("   Server response: ", text)>>]
    ELSE [exc |-> SubmissionError(EndpointNotFound, etext \o EndpointHint),
          printed |-> failed]

\* `except requests.exceptions.RequestException as e` of upload_submission,
\* for an exception whose str is etext.  error_detail.get on a body that
\* parses to something other than a dict raises AttributeError, which the
\* bare except takes like a body that does not parse.
request_failed(etext, has_response, text) ==
    LET failed == <<Line("Upload failed: ", etext)>> IN
    IF has_response
    THEN LET error_detail == loads(text) IN
         IF error_detail.ok /\ error_detail.val.t = "dict"
         THEN [exc |-> SubmissionError(
                          Get(error_detail.val, "error", PyStr(etext)), etext),
               printed |-> failed
                           \o <<Line("   Server response: ", dumps(error_detail.val))>>]
         ELSE [exc |-> SubmissionError(EndpointNotFound, etext \o EndpointHint),
               printed |-> failed
                           \o (IF error_detail.ok
                               THEN <<Line("   Server response: ",
                                           dumps(error_detail.val))>>
                               ELSE <<>>)
                           \o <<Line("   Server response: ", text)>>]
    ELSE [exc |-> SubmissionError(EndpointNotFound, etext \o EndpointHint),
          printed |-> failed]

\* upload_submission: the value it returns, or the exception that leaves it,
\* and what it prints.  response.json() on a 2xx body that is no JSON raises
\* requests' JSONDecodeError, a RequestException without a response, or with
\* an older requests the ValueError of the json module (i.json_error).
upload_submission(i) ==
    IF i.file = "directory"
    THEN [exc |-> Exc("IsADirectoryError", <<Word("[Errno 21] Is a directory")>>),
          value |-> Unset, printed |-> <<>>]
    ELSE LET uploading == <<Line("Uploading", <<>>)>> IN
         IF i.http.kind = "ok"
         THEN LET r == loads(i.http.text) IN
              IF r.ok
              THEN [exc |-> NoExc, value |-> r.val, printed |-> uploading]
              ELSE IF i.json_error = "RequestException"
              THEN LET h == request_failed(JSONDecodeErrorText, FALSE, <<>>) IN
                   [exc |-> h.exc, value |-> Unset, printed |-> uploading \o h.printed]
              ELSE [exc |-> Exc("JSONDecodeError", JSONDecodeErrorText),
                    value |-> Unset, printed |-> uploading]
         ELSE LET h == IF i.http.kind = "status"
                       THEN request_failed(HTTPErrorText, TRUE, i.http.text)
                       ELSE request_failed(ConnectionErrorText, FALSE, <<>>)
              IN  [exc |-> h.exc, value |-> Unset, printed |-> uploading \o h.printed]

(***************************************************************************)
(* upload_submission.py: main, one operator for each stretch of it.  Each  *)
(* takes the invocation i and the state s of the run and gives the state   *)
(* after the stretch:                                                      *)
(*   pc          where main is                                             *)
(*   result, body, exc     main's variables of these names (exc is `e`)    *)
(*   stdout      the lines printed                                         *)
(*   resultFile  submission_result.json                                    *)
(*   outFile     the lines this run appended to the GITHUB_OUTPUT file     *)
(*   sumFile     the lines it appended to the GITHUB_STEP_SUMMARY file     *)
(*   exit        the exit status                                           *)
(*   traceback   the exception that left main uncaught, if one did         *)
(***************************************************************************)
Start ==
    [pc |-> "parse_args", result |-> Unset, body |-> Unset, exc |-> NoExc,
     stdout |-> <<>>, resultFile |-> [written |-> FALSE, text |-> <<>>],
     outFile |-> <<>>, sumFile |-> <<>>, exit |-> Running, traceback |-> NoExc]

Idle == [Start EXCEPT !.pc = "idle"]

Echo(s, lines) == [s EXCEPT !.stdout = @ \o lines]
Goto(s, pc) == [s EXCEPT !.pc = pc]
\* An exception raised inside the try block of main.
Raise(s, e) == [s EXCEPT !.exc = e, !.pc = "except"]
\* sys.exit(code), and an exception nobody catches (exit status 1).
SysExit(s, code) == [s EXCEPT !.pc = "done", !.exit = Exited(code)]
Uncaught(s, e) ==
    [s EXCEPT !.pc = "done", !.exit = Exited(1), !.traceback = e]

\* open(path, 'a') on the file an environment variable names
OSError == Exc("OSError", <<Word("[Errno 2] No such file or directory")>>)

\* parse_args that ends every rejected command line with status 1
main_parse_args_status1(i, s) ==
    IF i.args = "error" THEN SysExit(s, 1)
    ELSE IF i.args = "help" THEN SysExit(s, 0)
    ELSE Goto(s, "check_file")

\* parser.parse_args(): argparse ends the process with status 2 on a
\* missing or invalid argument and with status 0 after --help.
main_parse_args(i, s) ==
    IF i.args = "error" THEN SysExit(s, 2)
    ELSE IF i.args = "help" THEN SysExit(s, 0)
    ELSE Goto(s, "check_file")

\* file_path.exists(), the .zip warning and the banner
main_check_file(i, s) ==
    IF i.file = "missing"
    THEN SysExit(Echo(s, <<Line("Error: File not found: ", <<>>)>>), 1)
    ELSE Goto(Echo(s, (IF i.zip THEN <<>>
                        ELSE <<Line("Warning: File does not have .zip extension: ", <<>>)>>)
                       \o <<Line("Competition Submission Upload", <<>>)>>),
              "upload")

\* result = upload_submission(...)
main_upload(i, s) ==
    LET r == upload_submission(i)
        t == Echo(s, r.printed)
    IN  IF r.exc.cls # "none" THEN Raise(t, r.exc)
        ELSE Goto([t EXCEPT !.result = r.value], "save")

\* json.dump(result, f, indent=2) into submission_result.json
main_save_result(i, s) ==
    Goto([s EXCEPT !.resultFile = [written |-> TRUE, text |-> dumps(s.result)]],
         "normalize")

\* 'body' in x: a key of a dict, an element of a list, a substring of a str
\* (here: one of its words); any other x raises TypeError.
Contains(x, k) ==
    IF x.t = "dict" THEN HasKey(x, k)
    ELSE IF x.t = "list" THEN \E j \in 1..Len(x.f) : x.f[j].val = S(k)
    ELSE \E j \in 1..Len(x.txt) : x.txt[j] = Word(k)

\* The normalisation that leaves a string body encoded
Normalize_no_decode(result) ==
    IF result.t \notin {"dict", "list", "str"}
    THEN [exc |-> Exc("TypeError", <<Word(result.t), Word("is not iterable")>>),
          body |-> Unset]
    ELSE IF Contains(result, "body")
    THEN IF result.t # "dict"
         THEN [exc |-> Exc("TypeError", <<Word(result.t), Word("indices must be integers")>>),
               body |-> Unset]
         ELSE [exc |-> NoExc, body |-> Lookup(result, "body")]
    ELSE [exc |-> NoExc, body |-> result]

\* `if 'body' in result: ... else: body = result`: the logical body, or the
\* exception raised on the way.
Normalize(result) ==
    IF result.t \notin {"dict", "list", "str"}
    THEN [exc |-> Exc("TypeError", <<Word(result.t), Word("is not iterable")>>),
          body |-> Unset]
    ELSE IF Contains(result, "body")
    THEN IF result.t # "dict"
         THEN [exc |-> Exc("TypeError", <<Word(result.t), Word("indices must be integers")>>),
               body |-> Unset]
         ELSE LET body == Lookup(result, "body") IN
              IF body.t = "str"
              THEN LET b == loads(body.txt) IN
                   IF b.ok THEN [exc |-> NoExc, body |-> b.val]
                   ELSE [exc |-> Exc("JSONDecodeError", JSONDecodeErrorText),
                         body |-> Unset]
              ELSE [exc |-> NoExc, body |-> body]
    ELSE [exc |-> NoExc, body |-> result]

\* `if isinstance(result, str): result = json.loads(result)` and the
\* normalisation
main_normalize(i, s) ==
    LET decoded == IF s.result.t = "str" THEN loads(s.result.txt)
                   ELSE [ok |-> TRUE, val |-> s.result]
    IN  IF ~decoded.ok THEN Raise(s, Exc("JSONDecodeError", JSONDecodeErrorText))
        ELSE LET n == Normalize(decoded.val)
                 t == [s EXCEPT !.result = decoded.val]
             IN  IF n.exc.cls # "none" THEN Raise(t, n.exc)
                 ELSE Goto([t EXCEPT !.body = n.body], "print_info")

\* `if args.print_info:` and its prints
main_print_info(i, s) ==
    IF ~i.print_info THEN Goto(s, "github_output")
    ELSE LET b == s.body
             r == RunBlock(<<
                 Fixed("Submission Successful!"),
                 GetLine(b, "  Team: ", "team_name", "Unknown"),
                 UpperLine(b, "  Role: ", "role", "Unknown"),
                 GetLine(b, "  Total Submissions: ", "submission_number", "Unknown"),
                 GetLine(b, "  Attacker Submissions: ", "attacker_submissions", "Unknown"),
                 GetLine(b, "  Defender Submissions: ", "defender_submissions", "Unknown"),
                 CapitalizeLine(b, "  This ", "role", "Unknown",
                                " Submission: #", "role_submission_number", "Unknown"),
                 TwoLine(b, "  Files: ", "file_count", "Unknown",
                         " files, bytes: ", "total_size", "Unknown"),
                 GetLine(b, "  Time: ", "submission_time", "Unknown"),
                 GetLine(b, "  S3 Prefix: ", "s3_prefix", "Unknown"),
                 GetLine(b, "  Message: ", "message", "No message") >>)
             t == Echo(s, r.lines)
         IN  IF r.exc.cls # "none" THEN Raise(t, r.exc) ELSE Goto(t, "github_output")

\* `if os.getenv('GITHUB_OUTPUT'):` of the try block.  The lines written
\* before an exception stay in the file: the with statement closes it.
main_github_output(i, s) ==
    IF i.output = "unset" THEN Goto(s, "step_summary")
    ELSE IF i.output = "unwritable" THEN Raise(s, OSError)
    ELSE LET b == s.body
             r == RunBlock(<<
                 Fixed("status=success"),
                 GetLine(b, "submission_number=", "submission_number", "Unknown"),
                 GetLine(b, "message=", "message", "Submission successful") >>)
             t == [s EXCEPT !.outFile = @ \o r.lines]
         IN  IF r.exc.cls # "none" THEN Raise(t, r.exc) ELSE Goto(t, "step_summary")

\* The characters of a path as a text.
Chars(p) == [j \in 1..Len(p) |-> Word(p[j])]

\* (args.submission_path or '').rstrip('/')
RECURSIVE path_prefix(_)
path_prefix(p) ==
    IF p # <<>> /\ p[Len(p)] = "/" THEN path_prefix(SubSeq(p, 1, Len(p) - 1)) ELSE p

\* [f for f in files if f]
RECURSIVE non_empty(_)
non_empty(names) ==
    IF names = <<>> THEN <<>>
    ELSE (IF Head(names) = "" THEN <<>> ELSE <<Head(names)>>) \o non_empty(Tail(names))

\* `if args.file_list and Path(args.file_list).exists():`, as statements of
\* the block that writes the summary
file_list_block(i) ==
    IF i.file_list.state \in {"none", "missing"} THEN <<>>
    ELSE IF i.file_list.state = "unreadable"
    THEN <<Raised(Exc("UnicodeDecodeError", <<Word("'utf-8' codec can't decode")>>))>>
    ELSE LET files == non_empty(i.file_list.names)
             prefix == Chars(path_prefix(i.submission_path))
         IN  IF files = <<>> THEN <<>>
             ELSE <<Wrote(Line("<details><summary>Uploaded Files", prefix)),
                    Fixed("(code fence)")>>
                  \o [j \in 1..Len(files) |-> Wrote(Line(files[j], prefix))]
                  \o <<Fixed("(end of code fence)</details>")>>

\* `if os.getenv('GITHUB_STEP_SUMMARY'):` of the try block
main_step_summary(i, s) ==
    IF i.summary = "unset" THEN Goto(s, "exit")
    ELSE IF s.body.t # "dict" THEN Raise(s, AttributeError(s.body, "get"))
    ELSE IF i.summary = "unwritable" THEN Raise(s, OSError)
    ELSE LET b == s.body
             role == Get(b, "role", S("unknown"))
             role_emoji == IF role = S("attacker") THEN "red" ELSE "blue"
             r == RunBlock(<<
                 Wrote(Line("## Submission Successful!", <<Word(role_emoji)>>)),
                 GetLine(b, "### Team: ", "team_name", "Unknown"),
                 Fixed("| Metric | Value |"),
                 Fixed("|--------|-------|"),
                 UpperLine(b, "| **Role** | ", "role", "unknown"),
                 GetLine(b, "| **This Submission** | #", "role_submission_number", "?"),
                 GetLine(b, "| **Total Submissions** | ", "submission_number", "?"),
                 GetLine(b, "| **Attacker Submissions** | ", "attacker_submissions", "?"),
                 GetLine(b, "| **Defender Submissions** | ", "defender_submissions", "?"),
                 GetLine(b, "| **Files Uploaded** | ", "file_count", "?"),
                 GetLine(b, "| **Total Size** | ", "total_size", "?"),
                 GetLine(b, "| **Submission Time** | ", "submission_time", "?"),
                 GetLine(b, "> ", "message", "Submission successful") >>
                 \o file_list_block(i))
             t == [s EXCEPT !.sumFile = @ \o r.lines]
         IN  IF r.exc.cls # "none" THEN Raise(t, r.exc) ELSE Goto(t, "exit")

\* sys.exit(0): SystemExit is no Exception, the except clause lets it pass.
main_exit(i, s) == SysExit(s, 0)

\* The except clause that writes no status
main_except_silent(i, s) ==
    Goto(Echo(s, <<Line("Submission Failed!", <<>>), Line("  Error: ", s.exc.msg)>>),
         "except_summary")

\* `except Exception as e:` the banner, and `if os.getenv('GITHUB_OUTPUT'):`
main_except(i, s) ==
    LET t == Echo(s, <<Line("Submission Failed!", <<>>), Line("  Error: ", s.exc.msg)>>) IN
    IF i.output = "unset" THEN Goto(t, "except_summary")
    ELSE IF i.output = "unwritable" THEN Uncaught(t, OSError)
    ELSE Goto([t EXCEPT !.outFile = @ \o <<Line("status=failure", <<>>),
                                           Line("message=Submission failed: ", s.exc.msg)>>],
              "except_summary")

\* `if os.getenv('GITHUB_STEP_SUMMARY'):` of the except clause
main_except_summary(i, s) ==
    IF i.summary = "unset" THEN Goto(s, "except_exit")
    ELSE IF i.summary = "unwritable" THEN Uncaught(s, OSError)
    ELSE LET e == s.exc
             lines == <<Line("## Submission Failed", <<>>)>>
                      \o (IF e.cls = "SubmissionError" /\ e.details # <<>>
                          THEN <<Line("**Error:** ", Format(e.title)),
                                 Line("(code fence) ", e.details)>>
                          ELSE <<Line("**Error:** ", e.msg)>>)
         IN  Goto([s EXCEPT !.sumFile = @ \o lines], "except_exit")

\* sys.exit(1)
main_except_exit(i, s) == SysExit(s, 1)

\* main from the state s on: the stretch at s.pc
Step(i, s) ==
    CASE s.pc = "parse_args" -> main_parse_args(i, s)
      [] s.pc = "check_file" -> main_check_file(i, s)
      [] s.pc = "upload" -> main_upload(i, s)
      [] s.pc = "save" -> main_save_result(i, s)
      [] s.pc = "normalize" -> main_normalize(i, s)
      [] s.pc = "print_info" -> main_print_info(i, s)
      [] s.pc = "github_output" -> main_github_output(i, s)
      [] s.pc = "step_summary" -> main_step_summary(i, s)
      [] s.pc = "exit" -> main_exit(i, s)
      [] s.pc = "except" -> main_except(i, s)
      [] s.pc = "except_summary" -> main_except_summary(i, s)
      [] s.pc = "except_exit" -> main_except_exit(i, s)
      [] OTHER -> s

\* main run to its end
RECURSIVE Run(_, _)
Run(i, s) == IF s.pc \in {"done", "idle"} THEN s ELSE Run(i, Step(i, s))

(***************************************************************************)
(* upload_submission.py: the invocations and the actions of a run          *)
(***************************************************************************)
\* Logical bodies a server can mean.
FullBody ==
    PyDict(<<Item("team_name", S("Foo")), Item("role", S("attacker")),
             Item("submission_number", PyInt("3")), Item("message", S("Received"))>>)
EmptyBody == PyDict(<<>>)
IntRoleBody == PyDict(<<Item("role", PyInt("5")), Item("team_name", S("Foo"))>>)
TextInBody == PyDict(<<Item("body", S("hello")), Item("team_name", S("Foo"))>>)
DictInBody ==
    PyDict(<<Item("body", PyDict(<<Item("team_name", S("Bar"))>>)),
             Item("role", S("defender"))>>)
LogicalBodies == {FullBody, EmptyBody, IntRoleBody, TextInBody, DictInBody}

\* {"body": <JSON-encoded string of B>}
Wrapped(B) == PyDict(<<Item("body", PyStr(dumps(B)))>>)

NotJSON == <<Word("<html>404</html>")>>

\* Bodies of 2xx responses: every logical body in both shapes, and values
\* and texts that are neither.
OkTexts ==
    {dumps(B) : B \in LogicalBodies}
    \cup {dumps(Wrapped(B)) : B \in LogicalBodies}
    \cup {dumps(PyList(<<>>)), dumps(PyList(<<S("body")>>)), dumps(PyInt("5")),
          dumps(PyStr(dumps(FullBody))), dumps(S("hello")),
          dumps(PyDict(<<Item("body", PyInt("5"))>>)),
          dumps(Wrapped(PyList(<<>>))), NotJSON}

\* Bodies of 4xx/5xx responses.
ErrorTexts ==
    {dumps(PyDict(<<Item("error", S("invalid role"))>>)),
     dumps(PyDict(<<Item("error", PyNone), Item("code", PyInt("7"))>>)),
     dumps(PyDict(<<Item("detail", S("forbidden"))>>)),
     dumps(PyList(<<PyInt("1")>>)), dumps(S("oops")), NotJSON, <<>>}

Exchanges ==
    {[kind |-> "ok", text |-> t] : t \in OkTexts}
    \cup {[kind |-> "status", text |-> t] : t \in ErrorTexts}
    \cup {[kind |-> "connection", text |-> <<>>]}

\* The --file-list file: not given, given and missing, given and not
\* UTF-8, or read: names is read_text().strip().split('\n').
FileLists ==
    {[state |-> st, names |-> <<>>] : st \in {"none", "missing", "unreadable"}}
    \cup {[state |-> "read", names |-> n] : n \in {<<"">>, <<"a.py", "", "b.py">>}}

\* An environment variable: not set, naming a file that can be appended
\* to, or naming one that cannot be opened.
EnvFiles == {"unset", "ok", "unwritable"}

Default ==
    [args |-> "ok", print_info |-> FALSE, file |-> "file", zip |-> TRUE,
     http |-> [kind |-> "connection", text |-> <<>>],
     json_error |-> "RequestException", output |-> "unset", summary |-> "unset",
     file_list |-> [state |-> "none", names |-> <<>>], submission_path |-> <<>>]

\* The invocations: an input varies only where main reads it.
Invocations ==
    {i \in [args : {"ok", "error", "help"}, print_info : BOOLEAN,
            file : {"file", "missing", "directory"}, zip : BOOLEAN,
            http : Exchanges, json_error : {"RequestException", "ValueError"},
            output : EnvFiles, summary : EnvFiles,
            file_list : FileLists, submission_path : {<<>>, <<"s">>, <<"s", "/">>}] :
        /\ i.args # "ok" =>
              i = [Default EXCEPT !.args = i.args, !.output = i.output,
                                  !.summary = i.summary]
        /\ i.file # "file" =>
              i = [Default EXCEPT !.args = i.args, !.file = i.file, !.zip = i.zip,
                                  !.output = i.output, !.summary = i.summary]
        /\ i.http.kind # "ok" =>
              /\ ~i.print_info
              /\ i.file_list = Default.file_list
        /\ i.json_error = "ValueError" =>
              i.http.kind = "ok" /\ ~loads(i.http.text).ok
        /\ i.submission_path # <<>> => non_empty(i.file_list.names) # <<>>}

VARIABLES
    inp,         \* the invocation of upload_submission.py
    up           \* the state of its run

upVars == <<inp, up>>

InitUpIdle == inp = Default /\ up = Idle

InitUp == inp \in Invocations /\ up = Start

UpParseArgs == up.pc = "parse_args" /\ up' = main_parse_args(inp, up) /\ inp' = inp
UpCheckFile == up.pc = "check_file" /\ up' = main_check_file(inp, up) /\ inp' = inp
UpUpload == up.pc = "upload" /\ up' = main_upload(inp, up) /\ inp' = inp
UpSaveResult == up.pc = "save" /\ up' = main_save_result(inp, up) /\ inp' = inp
UpNormalize == up.pc = "normalize" /\ up' = main_normalize(inp, up) /\ inp' = inp
UpPrintInfo == up.pc = "print_info" /\ up' = main_print_info(inp, up) /\ inp' = inp
UpGithubOutput ==
    up.pc = "github_output" /\ up' = main_github_output(inp, up) /\ inp' = inp
UpStepSummary ==
    up.pc = "step_summary" /\ up' = main_step_summary(inp, up) /\ inp' = inp
UpExit == up.pc = "exit" /\ up' = main_exit(inp, up) /\ inp' = inp
UpExcept == up.pc = "except" /\ up' = main_except(inp, up) /\ inp' = inp
UpExceptSummary ==
    up.pc = "except_summary" /\ up' = main_except_summary(inp, up) /\ inp' = inp
UpExceptExit == up.pc = "except_exit" /\ up' = main_except_exit(inp, up) /\ inp' = inp

(***************************************************************************)
(* The specification                                                       *)
(***************************************************************************)
vars == <<gitVars, valVars, upVars>>

Init ==
    \/ InitGit /\ InitValIdle /\ InitUpIdle
    \/ InitGitIdle /\ InitVal /\ InitUpIdle
    \/ InitGitIdle /\ InitValIdle /\ InitUp

Next ==
    \/ GitQuery /\ UNCHANGED <<valVars, upVars>>
    \/ GitWrite /\ UNCHANGED <<valVars, upVars>>
    \/ ValStart /\ UNCHANGED <<gitVars, upVars>>
    \/ ValStructure /\ UNCHANGED <<gitVars, upVars>>
    \/ ValCheck /\ UNCHANGED <<gitVars, upVars>>
    \/ ValLoopEnd /\ UNCHANGED <<gitVars, upVars>>
    \/ ValReport /\ UNCHANGED <<gitVars, upVars>>
    \/ UpParseArgs /\ UNCHANGED <<gitVars, valVars>>
    \/ UpCheckFile /\ UNCHANGED <<gitVars, valVars>>
    \/ UpUpload /\ UNCHANGED <<gitVars, valVars>>
    \/ UpSaveResult /\ UNCHANGED <<gitVars, valVars>>
    \/ UpNormalize /\ UNCHANGED <<gitVars, valVars>>
    \/ UpPrintInfo /\ UNCHANGED <<gitVars, valVars>>
    \/ UpGithubOutput /\ UNCHANGED <<gitVars, valVars>>
    \/ UpStepSummary /\ UNCHANGED <<gitVars, valVars>>
    \/ UpExit /\ UNCHANGED <<gitVars, valVars>>
    \/ UpExcept /\ UNCHANGED <<gitVars, valVars>>
    \/ UpExceptSummary /\ UNCHANGED <<gitVars, valVars>>
    \/ UpExceptExit /\ UNCHANGED <<gitVars, valVars>>

Spec == Init /\ [][Next]_vars

(***************************************************************************)
(* Properties of create_git_info.py                                        *)
(***************************************************************************)
GitFailed(kind) == kind \in {"CalledProcessError", "FileNotFoundError"}

\* C7: whichever of the nine queries fail because git is missing or exits
\* non-zero, the queries run one after the other in the fixed order, none
\* aborts the run, the field of a failed query is the empty string, and the
\* run ends with status 0 and a GIT_INFO.json that holds exactly the nine
\* keys, in order, with string values.
C7_FailedQueriesIsolated ==
    (gitPc # "idle" /\ gitEnv \in {"ok", "missing"}) =>
        /\ gitPc # "crashed"
        /\ Len(gitRan) = Len(info)
        /\ \A j \in 1..Len(info) :
              /\ gitRan[j].args = Queries[j].args
              /\ info[j].key = Queries[j].key
              /\ GitFailed(gitRan[j].outcome) => info[j].val = <<>>
              /\ \A c \in 1..Len(info[j].val) : info[j].val[c] \in {"a", "b", "c", " ", NL}
        /\ gitPc \in {"write", "done"} => Len(info) = Len(Queries)
        /\ gitPc = "done" => gitExit = Exited(0) /\ gitFile = <<"json", info>>
        /\ gitPc # "done" => gitExit = Running /\ gitFile = <<"absent">>

\* A finished run in which the tag query failed, the one before it and the
\* one after it succeeded.
C7_Witness ==
    /\ gitPc = "done"
    /\ gitRan[5].outcome = "CalledProcessError"
    /\ gitRan[4].outcome = "ok" /\ info[4].val # <<>>
    /\ gitRan[6].outcome = "ok" /\ info[6].val # <<>>
    /\ info[5].val = <<>>

(***************************************************************************)
(* Properties of validate_python.py                                        *)
(***************************************************************************)
\* A file fails when one of the two checks raises.
Fails(file) == py_compile(file) # "none" \/ ast_parse(file) # "none"

\* C5: the validator ends with status 0 exactly when a path is given and
\* exists, at least one *.py file is found under it and every file found
\* passes both checks; it ends with status 1 otherwise, and with no file
\* found it ends before any file is checked.
C5_ExitZeroIffAllValid ==
    valPc = "done" =>
        /\ valExit \in {Exited(0), Exited(1)}
        /\ valExit = Exited(0) <=>
              /\ argv # <<>>
              /\ tree.exists
              /\ Len(tree.files) >= 1
              /\ \A j \in 1..Len(tree.files) : ~Fails(tree.files[j])
        /\ Len(tree.files) = 0 => checked = <<>> /\ errors = <<>> /\ valExit = Exited(1)

\* A run that ends with status 0 after checking two files.
C5_Witness ==
    /\ valPc = "done"
    /\ valExit = Exited(0)
    /\ Len(tree.files) = 2
    /\ checked = <<1, 2>>

\* C6: every file with a syntax error is reported in the form "Syntax error
\* at line <lineno>: <msg>" with the line number of the error, whichever of
\* the two checks meets the error.
C6_SyntaxErrorsCarryLine ==
    \A j \in 1..Len(errors) :
        LET file == tree.files[errors[j].path] IN
        HasSyntaxError(file) => errors[j].msg = SyntaxMsg(file)

\* C9: once the loop is reached every file found is validated exactly once
\* and in turn, whatever the files before it did, and the errors list holds
\* exactly the failing files among those validated, each once with its path
\* and message; the final report prints that list.
C9_EachFileOnceErrorsExact ==
    valPc \in {"loop", "report"} \/ (valPc = "done" /\ python_files # <<>>) =>
        /\ Len(python_files) = Len(tree.files)
        /\ Len(checked) = valIdx
        /\ \A j \in 1..valIdx : checked[j] = j
        /\ valPc \in {"report", "done"} => valIdx = Len(python_files)
        /\ \A j \in 1..valIdx :
              Cardinality({e \in 1..Len(errors) : errors[e].path = j})
                  = IF Fails(tree.files[j]) THEN 1 ELSE 0
        /\ \A e \in 1..Len(errors) :
              /\ errors[e].path \in 1..valIdx
              /\ errors[e].msg = validate_python_syntax(tree.files[errors[e].path]).msg
              /\ errors[e].msg.form # ""
        /\ valPc = "done" => report = errors /\ valExit # Running
        /\ valPc # "done" => report = <<>> /\ valExit = Running

\* A finished run over a failing file, a valid one and another failing one:
\* all three were checked and the report lists the first and the third.
C9_Witness ==
    /\ valPc = "done"
    /\ checked = <<1, 2, 3>>
    /\ Fails(tree.files[1]) /\ ~Fails(tree.files[2]) /\ Fails(tree.files[3])
    /\ Len(report) = 2
    /\ report[1].path = 1 /\ report[2].path = 3

(***************************************************************************)
(* Properties of upload_submission.py                                      *)
(***************************************************************************)
\* The run got as far as calling upload_submission.
Uploading == inp.args = "ok" /\ inp.file # "missing" /\ up.pc # "idle"
\* The POST was sent: the archive could be read.
Posted == up.pc \notin {"idle", "parse_args", "check_file", "upload"}
              /\ inp.args = "ok" /\ inp.file = "file"
\* The run is over, or at the statement that ends it.
AtExit == up.pc \in {"exit", "except_exit", "done"}
\* The run failed: a usage error, or an exception in the try block.
Failure == inp.args = "error" \/ inp.file = "missing" \/ up.exc.cls # "none"

StatusLines(f) ==
    {j \in 1..Len(f) : f[j].s \in {"status=success", "status=failure"}}

\* C1 as claimed: every run ends with status 1 if it failed (a usage error
\* or an upload error) and with status 0 if it did not.
C1_ExitZeroOrOne ==
    up.pc = "done" => up.exit = IF Failure THEN Exited(1) ELSE Exited(0)

\* C1, amended: a run ends with status 2 when argparse rejects the command
\* line, with status 1 when the --file path does not exist or an exception
\* is raised while uploading or processing the response, and with status 0
\* otherwise; with no other status.
C1_ExitCodes ==
    /\ up.pc = "done" =>
          up.exit = IF inp.args = "error" THEN Exited(2)
                    ELSE IF inp.file = "missing" \/ up.exc.cls # "none" THEN Exited(1)
                    ELSE Exited(0)
    /\ up.pc # "done" => up.exit = Running

\* A run that argparse ended with status 2.
C1_Witness ==
    up.pc = "done" /\ inp.args = "error" /\ up.exit = Exited(2) /\ up.stdout = <<>>

\* C2 as claimed: with both files named and open to appending, every run
\* whose arguments parse has a status line in the GITHUB_OUTPUT file and a
\* summary in the GITHUB_STEP_SUMMARY file when it ends, the run on a
\* missing --file path included.
C2_AlwaysReported ==
    (up.pc = "done" /\ inp.args = "ok" /\ inp.output = "ok" /\ inp.summary = "ok") =>
        StatusLines(up.outFile) # {} /\ up.sumFile # <<>>

\* C2, amended: with both files named and open to appending, a run that
\* gets as far as the upload has appended a status line and a summary by
\* the time it exits, on success and on failure; a run that ends on a
\* rejected command line or a missing --file path appends nothing.
C2_ReportedOnceUploading ==
    /\ (AtExit /\ Uploading /\ inp.output = "ok" /\ inp.summary = "ok") =>
          StatusLines(up.outFile) # {} /\ up.sumFile # <<>>
    /\ (up.pc # "idle" /\ (inp.args # "ok" \/ inp.file = "missing")) =>
          up.outFile = <<>> /\ up.sumFile = <<>> /\ ~up.resultFile.written

\* A failed upload about to exit, with its failure line and its summary.
C2_Witness ==
    /\ up.pc = "except_exit"
    /\ inp.output = "ok" /\ inp.summary = "ok"
    /\ inp.http.kind = "connection"
    /\ up.outFile[1].s = "status=failure"
    /\ up.sumFile[1].s = "## Submission Failed"

C4_DetailsAreResponseText ==
    /\ (Posted /\ inp.http.kind = "status" /\ ~loads(inp.http.text).ok) =>
          /\ up.exc.cls = "SubmissionError"
          /\ up.exc.title = EndpointNotFound
          /\ up.exc.details = inp.http.text
    /\ (Posted /\ inp.http.kind = "connection") =>
          /\ up.exc.cls = "SubmissionError"
          /\ up.exc.title = EndpointNotFound
          /\ SubSeq(up.exc.details, 1, Len(ConnectionErrorText)) = ConnectionErrorText

\* C4, amended: a failed POST whose response body is no JSON raises the
\* generic SubmissionError with the text of the exception and the endpoint
\* hint as details (the response text is printed, and is not in the
\* exception); one with no response raises the same title with the text of
\* the connection exception and the hint as details.
C4_DetailsAreExceptionText ==
    /\ (Posted /\ inp.http.kind = "status" /\ ~loads(inp.http.text).ok) =>
          /\ up.exc.cls = "SubmissionError"
          /\ up.exc.title = EndpointNotFound
          /\ up.exc.details = HTTPErrorText \o EndpointHint
          /\ \E j \in 1..Len(up.stdout) :
                up.stdout[j] = Line("   Server response: ", inp.http.text)
    /\ (Posted /\ inp.http.kind = "connection") =>
          /\ up.exc.cls = "SubmissionError"
          /\ up.exc.title = EndpointNotFound
          /\ up.exc.details = ConnectionErrorText \o EndpointHint

\* The run on an HTTP error with an HTML body, in its except clause.
C4_Witness ==
    /\ up.pc = "except"
    /\ inp.http = [kind |-> "status", text |-> NotJSON]
    /\ up.exc.title = EndpointNotFound
    /\ up.exc.details # NotJSON

\* What a run shows: what it printed, the lines it appended to the two
\* files, and its exit status.
Shown(s) == <<s.stdout, s.outFile, s.sumFile, s.exit>>

\* The same invocation, answered with {"body": <B as a JSON string>}.
WrappedTwin(i, B) == [i EXCEPT !.http = [kind |-> "ok", text |-> dumps(Wrapped(B))]]

\* A finished run whose 2xx response was the logical body B itself.
AnsweredDirectly(B) ==
    /\ up.pc = "done"
    /\ inp.args = "ok" /\ inp.file = "file"
    /\ inp.http = [kind |-> "ok", text |-> dumps(B)]

\* C8 as claimed: for every logical body B, one with a "body" field
\* included, the run answered with B and the run answered with B wrapped
\* both take B as the body and show the same.
C8_ShapesAgree ==
    \A B \in LogicalBodies :
        AnsweredDirectly(B) =>
            LET w == Run(WrappedTwin(inp, B), Start) IN
            up.body = B /\ w.body = B /\ Shown(w) = Shown(up)

\* C8, amended: for every logical body B with no field named "body", the
\* run answered with B and the run answered with B wrapped both take B as
\* the body, print the same, append the same lines to GITHUB_OUTPUT and to
\* the step summary and end with the same status, which is 0 unless a
\* statement after the normalisation raises.
C8_ShapesAgreeWithoutBodyField ==
    \A B \in LogicalBodies :
        (AnsweredDirectly(B) /\ ~HasKey(B, "body")) =>
            LET w == Run(WrappedTwin(inp, B), Start) IN
            /\ up.body = B /\ w.body = B
            /\ Shown(w) = Shown(up)
            /\ w.exc = up.exc
            /\ up.exit = Exited(0) <=> up.exc.cls = "none"

\* The run answered with the full body itself, with --print-info and both
\* files, ended with status 0.
C8_Witness ==
    /\ AnsweredDirectly(FullBody)
    /\ inp.print_info /\ inp.output = "ok" /\ inp.summary = "ok"
    /\ up.exit = Exited(0)
    /\ Len(up.outFile) = 3

\* C10: a run that gets as far as the upload, with a GITHUB_OUTPUT file
\* open to appending, appends exactly one status line, and that line is
\* status=success exactly when the run ends with status 0.
C10_OneStatusLine ==
    (up.pc = "done" /\ Uploading /\ inp.output = "ok") =>
        /\ Cardinality(StatusLines(up.outFile)) = 1
        /\ (\E j \in StatusLines(up.outFile) : up.outFile[j].s = "status=success")
              <=> up.exit = Exited(0)

====
